---- MODULE Spec2Model ----
(***************************************************************************)
(* WebRTC signaling relay of pratik0017/backend2.                          *)
(*                                                                         *)
(* The repository holds two server programs over the same transport (ws):  *)
(*   - the room server  (src/unnamed/part_000): rooms + clientToRoom,      *)
(*   - the peer server  (src/src/index.ts, compiled to src/dist/index.js): *)
(*     one global set of peers, with message-type validation.              *)
(* The variable `server` says which of the two programs is running; it is  *)
(* chosen at start-up and never changes.                                   *)
(*                                                                         *)
(* Every handler runs to completion (single-threaded event loop), so each  *)
(* handler is one action.  `event` records the event just handled and      *)
(* `sent` the ws.send calls that this handler issued, in order.            *)
(***************************************************************************)
EXTENDS Integers, Sequences, FiniteSets, TLC

\* ---------------------------------------------------------------- bounds
NumConns == 3
NumRooms == 2

Conns == 1..NumConns
RoomNames == <<"r1", "r2", "r3", "r4">>
RoomIds == {RoomNames[i] : i \in 1..NumRooms}

\* ------------------------------------------------------------ JSON values
\* A field that is not present in the envelope (undefined in JS).
Absent == "<absent>"
\* A type field that is present but is not a string (e.g. 5).
NonString == "<non-string>"
\* A roomId that is present but falsy ("" / 0 / null).
EmptyRoomId == ""

NoData == [syntax |-> "none", layout |-> "compact", type |-> Absent,
           roomId |-> Absent, body |-> Absent, message |-> Absent]

\* Raw bytes that are not JSON.
Garbage == [NoData EXCEPT !.syntax = "garbage"]
\* The JSON text `null`.
JsonNull == [NoData EXCEPT !.syntax = "null"]
\* A JSON text that is a number / string / boolean / array: no fields.
Scalar == [NoData EXCEPT !.syntax = "scalar"]

Obj(type, roomId, body, layout) ==
    [syntax |-> "object", layout |-> layout, type |-> type,
     roomId |-> roomId, body |-> body, message |-> Absent]

NegotiationTypes == {"createOffer", "createAnswer", "iceCandidate"}
OtherTypes == NegotiationTypes \cup {"bogus", Absent, NonString}
Layouts == {"compact", "spaced"}

JoinPayloads ==
    {Obj("joinRoom", r, Absent, "compact") : r \in RoomIds \cup {Absent, EmptyRoomId}}
SignalPayloads ==
    {Obj(t, Absent, "abc", "compact") : t \in OtherTypes}
        \cup {Obj("createOffer", Absent, "abc", l) : l \in Layouts}
Payloads == {Garbage, JsonNull, Scalar} \cup JoinPayloads \cup SignalPayloads

\* JSON.parse: throws on garbage, otherwise yields the value; the layout
\* (whitespace) of the text is not part of the value.
ParseError == [NoData EXCEPT !.syntax = "SyntaxError"]

\* Variant: undecodable bytes are taken for a value without fields.
JSONparse_NoThrow(data) ==
    IF data.syntax = "garbage" THEN [data EXCEPT !.syntax = "scalar"]
    ELSE [data EXCEPT !.layout = "compact"]

JSONparse(data) ==
    IF data.syntax = "garbage" THEN ParseError
    ELSE [data EXCEPT !.layout = "compact"]

\* JSON.stringify: always the compact text of the value.
JSONstringify(value) == [value EXCEPT !.layout = "compact"]

ErrorEnvelope(text) ==
    [syntax |-> "object", layout |-> "compact", type |-> "error",
     roomId |-> Absent, body |-> Absent, message |-> text]

\* ------------------------------------------------------------------ state
VARIABLES server, readyState, rooms, clientToRoom, peers, crashed, event, sent

vars == <<server, readyState, rooms, clientToRoom, peers, crashed, event, sent>>

\* Set<WebSocket> iterates in insertion order: a sequence without duplicates.
Range(s) == {s[i] : i \in 1..Len(s)}
SetAdd(s, x) == IF x \in Range(s) THEN s ELSE Append(s, x)
SetDelete(s, x) == SelectSeq(s, LAMBDA y : y # x)

\* Map.set / Map.delete on a function whose domain is the set of keys.
MapSet(m, k, v) == [x \in DOMAIN m \cup {k} |-> IF x = k THEN v ELSE m[x]]
MapDelete(m, k) == [x \in DOMAIN m \ {k} |-> m[x]]
EmptyMap == [x \in {} |-> 0]

Send(to, value) == [to |-> to, data |-> JSONstringify(value)]

\* clientToRoom.get(c), Absent for undefined.
Assigned(c) == IF c \in DOMAIN clientToRoom THEN clientToRoom[c] ELSE Absent

\* The event being handled: its kind, its connection, the raw payload, and
\* the room the connection was assigned to when the handler started.
Ev(kind, c, data) ==
    [kind |-> kind, conn |-> c, data |-> data, was |-> Assigned(c)]

Init ==
    /\ server \in {"rooms", "peers"}
    /\ readyState = [c \in Conns |-> "NEW"]
    /\ rooms = EmptyMap
    /\ clientToRoom = EmptyMap
    /\ peers = <<>>
    /\ crashed = FALSE
    /\ event = [kind |-> "init", conn |-> 0, data |-> NoData, was |-> Absent]
    /\ sent = <<>>

\* WebSocket handles are fresh objects: the next 'connection' event brings
\* the lowest handle not used yet.
NextHandle(ws) == \A c \in Conns : c < ws => readyState[c] # "NEW"

\* Room ids are opaque keys chosen by the clients: a payload names a room of
\* the directory or, for a room that does not exist, the first unused name.
RoomNameInUse(data) ==
    data.roomId \in RoomIds =>
        \/ data.roomId \in DOMAIN rooms
        \/ \A i \in 1..NumRooms :
              (RoomNames[i] = data.roomId) =>
                  \A j \in 1..(i - 1) : RoomNames[j] \in DOMAIN rooms

\* The process is alive: an exception thrown inside a listener is uncaught
\* and ends the process, after which no handler runs.
Alive == ~crashed

\* message.roomId used as a condition (part_000 line 39).
Truthy(v) == v \notin {Absent, EmptyRoomId}

\* -------------------------------------------------- transport (ws library)
\* readyState is NEW before the 'connection' event, OPEN while messages can
\* arrive, CLOSING once the peer's close frame or a socket error was seen
\* (before 'close' is emitted), CLOSED when 'close' is emitted.

\* The transport notices the end of a connection; no handler of the
\* program runs yet (the window in which a room member is stale).
BeginClose(c) ==
    /\ Alive
    /\ readyState[c] = "OPEN"
    /\ readyState' = [readyState EXCEPT ![c] = "CLOSING"]
    /\ event' = Ev("closing", c, NoData)
    /\ sent' = <<>>
    /\ UNCHANGED <<server, rooms, clientToRoom, peers, crashed>>

\* ------------------------------------------- room server (part_000)
InvalidJsonRooms == "Invalid JSON format."
MustJoinText == "You must join a room before sending messages."

\* wss.on("connection"): only registers the handlers.
RoomsConnect(ws) ==
    /\ server = "rooms"
    /\ Alive
    /\ readyState[ws] = "NEW"
    /\ NextHandle(ws)
    /\ readyState' = [readyState EXCEPT ![ws] = "OPEN"]
    /\ event' = Ev("connect", ws, NoData)
    /\ sent' = <<>>
    /\ UNCHANGED <<server, rooms, clientToRoom, peers, crashed>>

\* Variant: the "already in a room" check is missing.
handleJoinRoom_NoGuard(ws, roomId) ==
    LET room == IF roomId \in DOMAIN rooms THEN rooms[roomId] ELSE <<>>
    IN  [rooms |-> MapSet(rooms, roomId, SetAdd(room, ws)),
         clientToRoom |-> MapSet(clientToRoom, ws, roomId)]

\* Variant: the room is looked up / created before the "already in a room"
\* check.
handleJoinRoom_CreateFirst(ws, roomId) ==
    LET room == IF roomId \in DOMAIN rooms THEN rooms[roomId] ELSE <<>>
    IN  IF ws \in DOMAIN clientToRoom
        THEN [rooms |-> MapSet(rooms, roomId, room), clientToRoom |-> clientToRoom]
        ELSE [rooms |-> MapSet(rooms, roomId, SetAdd(room, ws)),
              clientToRoom |-> MapSet(clientToRoom, ws, roomId)]

\* Variant: a connection that is already in a room is moved to the new one.
handleJoinRoom_Switch(ws, roomId) ==
    LET left == IF ws \in DOMAIN clientToRoom
                THEN LET old == SetDelete(rooms[clientToRoom[ws]], ws)
                     IN  IF Len(old) = 0 THEN MapDelete(rooms, clientToRoom[ws])
                         ELSE MapSet(rooms, clientToRoom[ws], old)
                ELSE rooms
        room == IF roomId \in DOMAIN left THEN left[roomId] ELSE <<>>
    IN  [rooms |-> MapSet(left, roomId, SetAdd(room, ws)),
         clientToRoom |-> MapSet(clientToRoom, ws, roomId)]

\* Variant: rooms.set(roomId, new Set([ws])) on every join.
handleJoinRoom_Replace(ws, roomId) ==
    IF ws \in DOMAIN clientToRoom
    THEN [rooms |-> rooms, clientToRoom |-> clientToRoom]
    ELSE [rooms |-> MapSet(rooms, roomId, <<ws>>),
          clientToRoom |-> MapSet(clientToRoom, ws, roomId)]

\* handleJoinRoom: the directory after the call.
handleJoinRoom(ws, roomId) ==
    IF ws \in DOMAIN clientToRoom
    THEN [rooms |-> rooms, clientToRoom |-> clientToRoom]
    ELSE LET room == IF roomId \in DOMAIN rooms THEN rooms[roomId] ELSE <<>>
         IN  [rooms |-> MapSet(rooms, roomId, SetAdd(room, ws)),
              clientToRoom |-> MapSet(clientToRoom, ws, roomId)]

\* Variant: the sender is not excluded from the loop.
ForwardTo_InclSender(members, senderWs, message) ==
    LET rcpts == SelectSeq(members, LAMBDA clientWs : readyState[clientWs] = "OPEN")
    IN  [i \in 1..Len(rcpts) |-> Send(rcpts[i], message)]

\* Variant: readyState is not consulted.
ForwardTo_NoOpenCheck(members, senderWs, message) ==
    LET rcpts == SelectSeq(members, LAMBDA clientWs : clientWs # senderWs)
    IN  [i \in 1..Len(rcpts) |-> Send(rcpts[i], message)]

\* Variant: the loop ends after its first send.
ForwardTo_FirstOnly(members, senderWs, message) ==
    LET rcpts == SelectSeq(members,
                   LAMBDA clientWs : clientWs # senderWs /\ readyState[clientWs] = "OPEN")
    IN  [i \in 1..(IF Len(rcpts) > 0 THEN 1 ELSE 0) |-> Send(rcpts[i], message)]

\* Variant: the loop ends at the first member that is not open.
ForwardTo_StopAtStale(members, senderWs, message) ==
    LET others == SelectSeq(members, LAMBDA clientWs : clientWs # senderWs)
        stale == {i \in 1..Len(others) : readyState[others[i]] # "OPEN"}
        n == IF stale = {} THEN Len(others)
             ELSE (CHOOSE i \in stale : \A j \in stale : i <= j) - 1
    IN  [i \in 1..n |-> Send(others[i], message)]

\* The loop of broadcastToRoom: one send per member that is not the sender
\* and whose connection is open, in the iteration order of the set.
ForwardTo(members, senderWs, message) ==
    LET rcpts == SelectSeq(members,
                   LAMBDA clientWs : clientWs # senderWs /\ readyState[clientWs] = "OPEN")
    IN  [i \in 1..Len(rcpts) |-> Send(rcpts[i], message)]

\* Variant: a sender without a room gets no reply.
broadcastToRoom_NoReply(senderWs, message) ==
    IF senderWs \notin DOMAIN clientToRoom \/ ~Truthy(clientToRoom[senderWs])
    THEN <<>>
    ELSE LET roomId == clientToRoom[senderWs]
         IN  IF roomId \notin DOMAIN rooms
             THEN <<>>
             ELSE ForwardTo(rooms[roomId], senderWs, message)

\* broadcastToRoom: the sends it issues.
broadcastToRoom(senderWs, message) ==
    IF senderWs \notin DOMAIN clientToRoom \/ ~Truthy(clientToRoom[senderWs])
    THEN <<Send(senderWs, ErrorEnvelope(MustJoinText))>>
    ELSE LET roomId == clientToRoom[senderWs]
         IN  IF roomId \notin DOMAIN rooms
             THEN <<>>
             ELSE ForwardTo(rooms[roomId], senderWs, message)

\* Variant: clientToRoom.delete(ws) is missing.
handleDisconnect_KeepLookup(ws) ==
    IF ws \notin DOMAIN clientToRoom \/ ~Truthy(clientToRoom[ws])
    THEN [rooms |-> rooms, clientToRoom |-> clientToRoom]
    ELSE LET roomId == clientToRoom[ws]
             room == SetDelete(rooms[roomId], ws)
         IN  [clientToRoom |-> clientToRoom,
              rooms |-> IF roomId \notin DOMAIN rooms THEN rooms
                        ELSE IF Len(room) = 0 THEN MapDelete(rooms, roomId)
                        ELSE MapSet(rooms, roomId, room)]

\* Variant: the room is kept when its last member leaves.
handleDisconnect_KeepRoom(ws) ==
    IF ws \notin DOMAIN clientToRoom \/ ~Truthy(clientToRoom[ws])
    THEN [rooms |-> rooms, clientToRoom |-> clientToRoom]
    ELSE LET roomId == clientToRoom[ws]
             room == SetDelete(rooms[roomId], ws)
         IN  [clientToRoom |-> MapDelete(clientToRoom, ws),
              rooms |-> IF roomId \notin DOMAIN rooms THEN rooms
                        ELSE MapSet(rooms, roomId, room)]

\* Variant: the whole room is deleted when any member leaves.
handleDisconnect_DropRoom(ws) ==
    IF ws \notin DOMAIN clientToRoom \/ ~Truthy(clientToRoom[ws])
    THEN [rooms |-> rooms, clientToRoom |-> clientToRoom]
    ELSE [clientToRoom |-> MapDelete(clientToRoom, ws),
          rooms |-> MapDelete(rooms, clientToRoom[ws])]

\* handleDisconnect: the directory after the call.
handleDisconnect(ws) ==
    IF ws \notin DOMAIN clientToRoom \/ ~Truthy(clientToRoom[ws])
    THEN [rooms |-> rooms, clientToRoom |-> clientToRoom]
    ELSE LET roomId == clientToRoom[ws]
             room == SetDelete(rooms[roomId], ws)
         IN  [clientToRoom |-> MapDelete(clientToRoom, ws),
              rooms |-> IF roomId \notin DOMAIN rooms THEN rooms
                        ELSE IF Len(room) = 0 THEN MapDelete(rooms, roomId)
                        ELSE MapSet(rooms, roomId, room)]

\* ws.on("message") of the room server.
RoomsMessage(ws, data) ==
    /\ server = "rooms"
    /\ Alive
    /\ readyState[ws] = "OPEN"
    /\ RoomNameInUse(data)
    /\ event' = Ev("message", ws, data)
    /\ LET message == JSONparse(data) IN
       IF message = ParseError
       THEN /\ sent' = <<Send(ws, ErrorEnvelope(InvalidJsonRooms))>>
            /\ UNCHANGED <<rooms, clientToRoom, crashed>>
       ELSE IF message.syntax = "null"
       THEN \* null.type throws a TypeError that nothing catches
            /\ crashed' = TRUE
            /\ sent' = <<>>
            /\ UNCHANGED <<rooms, clientToRoom>>
       ELSE IF message.type = "joinRoom" /\ Truthy(message.roomId)
       THEN /\ rooms' = handleJoinRoom(ws, message.roomId).rooms
            /\ clientToRoom' = handleJoinRoom(ws, message.roomId).clientToRoom
            /\ sent' = <<>>
            /\ UNCHANGED crashed
       ELSE /\ sent' = broadcastToRoom(ws, message)
            /\ UNCHANGED <<rooms, clientToRoom, crashed>>
    /\ UNCHANGED <<server, readyState, peers>>

\* Variant: the close handler only logs.
RoomsClose_LogOnly(ws) ==
    /\ server = "rooms"
    /\ Alive
    /\ readyState[ws] \in {"OPEN", "CLOSING"}
    /\ readyState' = [readyState EXCEPT ![ws] = "CLOSED"]
    /\ event' = Ev("close", ws, NoData)
    /\ sent' = <<>>
    /\ UNCHANGED <<server, rooms, clientToRoom, peers, crashed>>

\* Variant: the remaining members of the room are told that a peer left.
RoomsClose_NotifyPeers(ws) ==
    /\ server = "rooms"
    /\ Alive
    /\ readyState[ws] \in {"OPEN", "CLOSING"}
    /\ readyState' = [readyState EXCEPT ![ws] = "CLOSED"]
    /\ event' = Ev("close", ws, NoData)
    /\ rooms' = handleDisconnect(ws).rooms
    /\ clientToRoom' = handleDisconnect(ws).clientToRoom
    /\ sent' = IF ws \in DOMAIN clientToRoom
               THEN ForwardTo(rooms[clientToRoom[ws]], ws, ErrorEnvelope("peer left"))
               ELSE <<>>
    /\ UNCHANGED <<server, peers, crashed>>

\* ws.on("close") of the room server.
RoomsClose(ws) ==
    /\ server = "rooms"
    /\ Alive
    /\ readyState[ws] \in {"OPEN", "CLOSING"}
    /\ readyState' = [readyState EXCEPT ![ws] = "CLOSED"]
    /\ event' = Ev("close", ws, NoData)
    /\ rooms' = handleDisconnect(ws).rooms
    /\ clientToRoom' = handleDisconnect(ws).clientToRoom
    /\ sent' = <<>>
    /\ UNCHANGED <<server, peers, crashed>>

\* Variant: the error handler only logs.
RoomsError_LogOnly(ws) ==
    /\ server = "rooms"
    /\ Alive
    /\ readyState[ws] \in {"OPEN", "CLOSING"}
    /\ readyState' = [readyState EXCEPT ![ws] = "CLOSING"]
    /\ event' = Ev("error", ws, NoData)
    /\ sent' = <<>>
    /\ UNCHANGED <<server, rooms, clientToRoom, peers, crashed>>

\* ws.on("error") of the room server; ws leaves OPEN before it emits 'error'.
RoomsError(ws) ==
    /\ server = "rooms"
    /\ Alive
    /\ readyState[ws] \in {"OPEN", "CLOSING"}
    /\ readyState' = [readyState EXCEPT ![ws] = "CLOSING"]
    /\ event' = Ev("error", ws, NoData)
    /\ rooms' = handleDisconnect(ws).rooms
    /\ clientToRoom' = handleDisconnect(ws).clientToRoom
    /\ sent' = <<>>
    /\ UNCHANGED <<server, peers, crashed>>

\* ------------------------------------------- peer server (index.ts)
InvalidJsonPeers == "Invalid JSON format"
InvalidTypeText == "Missing or invalid 'type' field"
UnknownTypeText(type) == "Unknown message type: " \o type

\* wss.on("connection"): peers.add(ws).
PeersConnect(ws) ==
    /\ server = "peers"
    /\ Alive
    /\ readyState[ws] = "NEW"
    /\ NextHandle(ws)
    /\ readyState' = [readyState EXCEPT ![ws] = "OPEN"]
    /\ peers' = SetAdd(peers, ws)
    /\ event' = Ev("connect", ws, NoData)
    /\ sent' = <<>>
    /\ UNCHANGED <<server, rooms, clientToRoom, crashed>>

\* broadcastToOthers: the sends it issues.
broadcastToOthers(sender, message) ==
    LET rcpts == SelectSeq(peers,
                   LAMBDA peer : peer # sender /\ readyState[peer] = "OPEN")
    IN  [i \in 1..Len(rcpts) |-> Send(rcpts[i], message)]

\* ws.on("message") of the peer server.
PeersMessage(ws, data) ==
    /\ server = "peers"
    /\ Alive
    /\ readyState[ws] = "OPEN"
    /\ event' = Ev("message", ws, data)
    /\ LET message == JSONparse(data) IN
       IF message = ParseError
       THEN /\ sent' = <<Send(ws, ErrorEnvelope(InvalidJsonPeers))>>
            /\ UNCHANGED crashed
       ELSE IF message.syntax = "null"
       THEN /\ crashed' = TRUE
            /\ sent' = <<>>
       ELSE IF message.type \in {Absent, NonString}
       THEN /\ sent' = <<Send(ws, ErrorEnvelope(InvalidTypeText))>>
            /\ UNCHANGED crashed
       ELSE IF message.type \in NegotiationTypes
       THEN /\ sent' = broadcastToOthers(ws, message)
            /\ UNCHANGED crashed
       ELSE /\ sent' = <<Send(ws, ErrorEnvelope(UnknownTypeText(message.type)))>>
            /\ UNCHANGED crashed
    /\ UNCHANGED <<server, readyState, rooms, clientToRoom, peers>>

\* ws.on("close") of the peer server: peers.delete(ws).
PeersClose(ws) ==
    /\ server = "peers"
    /\ Alive
    /\ readyState[ws] \in {"OPEN", "CLOSING"}
    /\ readyState' = [readyState EXCEPT ![ws] = "CLOSED"]
    /\ peers' = SetDelete(peers, ws)
    /\ event' = Ev("close", ws, NoData)
    /\ sent' = <<>>
    /\ UNCHANGED <<server, rooms, clientToRoom, crashed>>

\* ws.on("error") of the peer server: logs only.
PeersError(ws) ==
    /\ server = "peers"
    /\ Alive
    /\ readyState[ws] \in {"OPEN", "CLOSING"}
    /\ readyState' = [readyState EXCEPT ![ws] = "CLOSING"]
    /\ event' = Ev("error", ws, NoData)
    /\ sent' = <<>>
    /\ UNCHANGED <<server, rooms, clientToRoom, peers, crashed>>

\* ---------------------------------------------------------- specification
Next ==
    \/ \E c \in Conns : BeginClose(c)
    \/ \E c \in Conns : RoomsConnect(c)
    \/ \E c \in Conns, d \in Payloads : RoomsMessage(c, d)
    \/ \E c \in Conns : RoomsClose(c)
    \/ \E c \in Conns : RoomsError(c)
    \/ \E c \in Conns : PeersConnect(c)
    \/ \E c \in Conns, d \in Payloads : PeersMessage(c, d)
    \/ \E c \in Conns : PeersClose(c)
    \/ \E c \in Conns : PeersError(c)

Spec == Init /\ [][Next]_vars

TypeOK ==
    /\ server \in {"rooms", "peers"}
    /\ readyState \in [Conns -> {"NEW", "OPEN", "CLOSING", "CLOSED"}]
    /\ DOMAIN rooms \subseteq RoomIds
    /\ DOMAIN clientToRoom \subseteq Conns
    /\ Range(peers) \subseteq Conns
    /\ crashed \in BOOLEAN

\* ------------------------------------------------------------ properties
Members(r) == IF r \in DOMAIN rooms THEN Range(rooms[r]) ELSE {}
Recipients(log) == {log[i].to : i \in 1..Len(log)}
IsObject(data) == data.syntax = "object"

\* A send that relays the payload being handled (its re-encoded value).
IsForwardedCopy(s) ==
    /\ event.kind = "message"
    /\ s.data = JSONstringify(JSONparse(event.data))

\* C1 (I1): a connection is in the member set of room r iff clientToRoom
\* maps that connection to r.
C1_ReverseLookupAgrees ==
    \A c \in Conns : \A r \in RoomIds \cup DOMAIN rooms :
        (c \in Members(r)) <=> (c \in DOMAIN clientToRoom /\ clientToRoom[c] = r)

\* C1 witness: two rooms are populated right after a member of a shared
\* room disconnected.
C1_Witness ==
    /\ event.kind \in {"close", "error"}
    /\ event.was \in DOMAIN rooms
    /\ \E r \in DOMAIN rooms : r # event.was

\* C2 (I3): no connection is a member of two rooms at once.
C2_AtMostOneRoom ==
    \A c \in Conns : Cardinality({r \in DOMAIN rooms : c \in Range(rooms[r])}) <= 1

\* C2 witness: a connection assigned to one room has just sent joinRoom
\* naming a different room.
C2_Witness ==
    /\ event.kind = "message"
    /\ event.data.type = "joinRoom"
    /\ event.was # Absent
    /\ Truthy(event.data.roomId)
    /\ event.data.roomId # event.was

\* C3 (I2): no room of the directory has an empty member set.
C3_NoEmptyRoom ==
    \A r \in DOMAIN rooms : Len(rooms[r]) > 0

\* C3 witness: the last member of a room has just disconnected and the
\* room is gone.
C3_Witness ==
    /\ event.kind \in {"close", "error"}
    /\ event.was # Absent
    /\ event.was \notin DOMAIN rooms

\* C4: no forwarded copy of a message goes to its sender.
C4_SenderExcluded ==
    \A i \in 1..Len(sent) : IsForwardedCopy(sent[i]) => sent[i].to # event.conn

\* C4 witness: a message was forwarded to two other connections.
C4_Witness ==
    /\ event.kind = "message"
    /\ Len(sent) >= 2
    /\ \A i \in 1..Len(sent) : IsForwardedCopy(sent[i])

\* C5: a negotiation message from a sender assigned to room r is sent once
\* to each open member of r other than the sender and to nobody else, with
\* the type and payload fields of the message received.
C5_DeliverySet ==
    [][\A c \in Conns :
        ( /\ server = "rooms"
          /\ event'.kind = "message"
          /\ event'.conn = c
          /\ IsObject(event'.data)
          /\ event'.data.type \in NegotiationTypes
          /\ c \in DOMAIN clientToRoom )
        => LET expected == {m \in Members(clientToRoom[c]) :
                               m # c /\ readyState[m] = "OPEN"}
           IN  /\ Recipients(sent') = expected
               /\ Len(sent') = Cardinality(expected)
               /\ \A i \in 1..Len(sent') :
                    /\ IsObject(sent'[i].data)
                    /\ sent'[i].data.type = event'.data.type
                    /\ sent'[i].data.body = event'.data.body
                    /\ sent'[i].data.roomId = event'.data.roomId
                    /\ sent'[i].data.message = event'.data.message
    ]_vars

\* C5 witness: a negotiation message (sent with extra whitespace) reached the
\* one other member of the sender's room while an open connection sits in
\* another room.
C5_Witness ==
    /\ server = "rooms"
    /\ event.kind = "message"
    /\ event.data.type \in NegotiationTypes
    /\ event.data.layout = "spaced"
    /\ event.was # Absent
    /\ Len(sent) = 1
    /\ \E m \in DOMAIN clientToRoom :
         clientToRoom[m] # event.was /\ readyState[m] = "OPEN"

\* C6: in the room server, a decoded message whose type is not joinRoom,
\* from a connection without a room, gets exactly one reply, the
\* join-first error, sent to that connection; nothing is forwarded and the
\* directory is unchanged.
C6_JoinBeforeSend ==
    [][\A c \in Conns :
        ( /\ server = "rooms"
          /\ event'.kind = "message"
          /\ event'.conn = c
          /\ event'.data.syntax \in {"object", "scalar"}
          /\ event'.data.type # "joinRoom"
          /\ c \notin DOMAIN clientToRoom )
        => /\ sent' = <<[to |-> c, data |-> ErrorEnvelope(MustJoinText)]>>
           /\ rooms' = rooms
           /\ clientToRoom' = clientToRoom
    ]_vars

\* C6 witness: an unassigned connection sent a negotiation message while
\* another open connection is in a room.
C6_Witness ==
    /\ server = "rooms"
    /\ event.kind = "message"
    /\ event.data.type \in NegotiationTypes
    /\ event.was = Absent
    /\ Len(sent) = 1
    /\ sent[1].to = event.conn
    /\ \E m \in DOMAIN clientToRoom : readyState[m] = "OPEN"

\* C7: a message whose type is a string other than joinRoom, createOffer,
\* createAnswer, iceCandidate gets an error reply naming the type and is
\* forwarded to nobody.
C7_UnknownTypeRejected ==
    [][\A c \in Conns :
        ( /\ event'.kind = "message"
          /\ event'.conn = c
          /\ IsObject(event'.data)
          /\ event'.data.type \notin
               NegotiationTypes \cup {"joinRoom", Absent, NonString} )
        => /\ \E i \in 1..Len(sent') :
                sent'[i] = [to |-> c,
                            data |-> ErrorEnvelope(UnknownTypeText(event'.data.type))]
           /\ Recipients(sent') \subseteq {c}
    ]_vars

\* C8: a decoded payload whose type is absent or not a string gets an error
\* reply to the sender; nothing is forwarded, the directory is unchanged and
\* the connection stays open.
C8_MissingTypeRejected ==
    [][\A c \in Conns :
        ( /\ event'.kind = "message"
          /\ event'.conn = c
          /\ IsObject(event'.data)
          /\ event'.data.type \in {Absent, NonString} )
        => /\ \E i \in 1..Len(sent') :
                sent'[i].to = c /\ sent'[i].data.type = "error"
                                /\ sent'[i].data.message # Absent
           /\ Recipients(sent') \subseteq {c}
           /\ rooms' = rooms /\ clientToRoom' = clientToRoom /\ peers' = peers
           /\ readyState'[c] = "OPEN"
    ]_vars

\* C9: in the room server, joinRoom without a roomId (absent or empty) gets
\* an error reply to the sender, is forwarded to nobody and leaves the
\* directory unchanged.
C9_JoinWithoutRoomIdRejected ==
    [][\A c \in Conns :
        ( /\ server = "rooms"
          /\ event'.kind = "message"
          /\ event'.conn = c
          /\ IsObject(event'.data)
          /\ event'.data.type = "joinRoom"
          /\ ~Truthy(event'.data.roomId) )
        => /\ \E i \in 1..Len(sent') :
                sent'[i].to = c /\ sent'[i].data.type = "error"
                                /\ sent'[i].data.message # Absent
           /\ Recipients(sent') \subseteq {c}
           /\ rooms' = rooms /\ clientToRoom' = clientToRoom
    ]_vars

\* The text of the reply to undecodable bytes, per program.
InvalidJsonText == IF server = "rooms" THEN InvalidJsonRooms ELSE InvalidJsonPeers

\* C10: undecodable bytes get exactly one reply, the invalid-JSON error, to
\* the sender; nothing else is sent, directory, reverse mapping and peers are
\* unchanged, the connection stays open and the process alive; and a
\* joinRoom that an unassigned connection sends right after it puts the
\* connection into the named room.
C10_UnparsablePayload ==
    [][\A c \in Conns :
        /\ ( /\ event'.kind = "message"
             /\ event'.conn = c
             /\ event'.data.syntax = "garbage" )
           => /\ sent' = <<[to |-> c, data |-> ErrorEnvelope(InvalidJsonText)]>>
              /\ rooms' = rooms /\ clientToRoom' = clientToRoom /\ peers' = peers
              /\ readyState' = readyState
              /\ readyState'[c] = "OPEN"
              /\ ~crashed'
        /\ ( /\ server = "rooms"
             /\ event.kind = "message" /\ event.conn = c
             /\ event.data.syntax = "garbage"
             /\ event.was = Absent
             /\ event'.kind = "message" /\ event'.conn = c
             /\ event'.data.type = "joinRoom"
             /\ Truthy(event'.data.roomId) )
           => /\ clientToRoom' = MapSet(clientToRoom, c, event'.data.roomId)
              /\ event'.data.roomId \in DOMAIN rooms'
              /\ Range(rooms'[event'.data.roomId]) =
                     Members(event'.data.roomId) \cup {c}
              /\ sent' = <<>>
    ]_vars

\* C10 witness: a room member sent undecodable bytes and got the single
\* reply while another member of its room is open.
C10_Witness ==
    /\ server = "rooms"
    /\ event.kind = "message"
    /\ event.data.syntax = "garbage"
    /\ event.was # Absent
    /\ Len(sent) = 1
    /\ sent[1].to = event.conn
    /\ \E m \in Members(event.was) : m # event.conn /\ readyState[m] = "OPEN"

\* The second case of C10 occurs: no step is a joinRoom of an unassigned
\* connection right after its undecodable payload (expected to be violated).
C10_JoinAfterGarbageNeverHappens ==
    [][\A c \in Conns :
        ~( /\ server = "rooms"
           /\ event.kind = "message" /\ event.conn = c
           /\ event.data.syntax = "garbage"
           /\ event.was = Absent
           /\ event'.kind = "message" /\ event'.conn = c
           /\ event'.data.type = "joinRoom"
           /\ Truthy(event'.data.roomId) )
    ]_vars

\* Every send of the last handler that is a server-made error envelope.
IsErrorReply(s) == s.data.type = "error" /\ s.data.message # Absent

\* C11: no inbound payload ends the process, and an error reply goes only to
\* the connection whose payload is being handled.
C11_NoFatalFailure ==
    /\ ~crashed
    /\ \A i \in 1..Len(sent) : IsErrorReply(sent[i]) => sent[i].to = event.conn

\* C12: joinRoom (with a roomId) from a connection that already has a room
\* changes neither the directory nor the reverse mapping and sends nothing.
C12_DuplicateJoinNoOp ==
    [][\A c \in Conns :
        ( /\ server = "rooms"
          /\ event'.kind = "message"
          /\ event'.conn = c
          /\ IsObject(event'.data)
          /\ event'.data.type = "joinRoom"
          /\ Truthy(event'.data.roomId)
          /\ c \in DOMAIN clientToRoom )
        => /\ rooms' = rooms
           /\ clientToRoom' = clientToRoom
           /\ sent' = <<>>
    ]_vars

\* C12 witness: an assigned connection has just sent joinRoom naming a room
\* that does not exist.
C12_Witness ==
    /\ server = "rooms"
    /\ event.kind = "message"
    /\ event.data.type = "joinRoom"
    /\ event.was # Absent
    /\ event.data.roomId \in RoomIds \ DOMAIN rooms

\* C13: a room assignment never changes into another room; it ends only
\* with the connection leaving OPEN for good, and a connection that is not
\* OPEN never gets an assignment.
C13_NoRoomSwitch ==
    [][\A c \in Conns :
        IF c \in DOMAIN clientToRoom
        THEN IF c \in DOMAIN clientToRoom'
             THEN /\ clientToRoom'[c] = clientToRoom[c]
                  /\ \E i \in 1..Len(rooms'[clientToRoom[c]]) :
                        rooms'[clientToRoom[c]][i] = c
             ELSE readyState'[c] \in {"CLOSING", "CLOSED"}
        ELSE /\ c \in DOMAIN clientToRoom' => readyState[c] = "OPEN"
             /\ readyState[c] \in {"CLOSING", "CLOSED"}
                   => readyState'[c] \in {"CLOSING", "CLOSED"}
    ]_vars

\* C13 witness: a transport error took a member out of its room while
\* another room exists; the connection is no longer open.
C13_Witness ==
    /\ event.kind = "error"
    /\ event.was # Absent
    /\ readyState[event.conn] = "CLOSING"
    /\ event.conn \notin DOMAIN clientToRoom
    /\ \E r \in DOMAIN rooms : r # event.was

\* The event of the step is the close or the error event of connection c.
Disconnects(c) == event'.conn = c /\ event'.kind \in {"close", "error"}

C14_RecipientNeverFails ==
    [][\A c \in Conns :
        ~( /\ event.kind = "message"
           /\ Len(sent) >= 2
           /\ c \in Recipients(sent)
           /\ event'.conn = c
           /\ event'.kind \in {"closing", "error"} )
    ]_vars

\* C15: in the room server the close and the error event of c have the same
\* effect: c loses its mapping, leaves its room, the room goes if it is then
\* empty, everything else stays; for a connection without a mapping (never
\* joined, or already cleaned up) nothing changes.
C15_CloseErrorSameAndIdempotent ==
    [][\A c \in Conns :
        (server = "rooms" /\ Disconnects(c))
        => /\ DOMAIN clientToRoom' = DOMAIN clientToRoom \ {c}
           /\ \A m \in DOMAIN clientToRoom' : clientToRoom'[m] = clientToRoom[m]
           /\ DOMAIN rooms' = {r \in DOMAIN rooms : Range(rooms[r]) \ {c} # {}}
           /\ \A r \in DOMAIN rooms' : Range(rooms'[r]) = Range(rooms[r]) \ {c}
           /\ (c \notin DOMAIN clientToRoom)
                 => (rooms' = rooms /\ clientToRoom' = clientToRoom)
           /\ (event.conn = c /\ event.kind \in {"close", "error"})
                 => (rooms' = rooms /\ clientToRoom' = clientToRoom)
    ]_vars

\* C15 witness: the close event of a connection without a mapping was
\* handled while the directory holds a room.
C15_Witness ==
    /\ server = "rooms"
    /\ event.kind = "close"
    /\ event.was = Absent
    /\ rooms # EmptyMap

\* The second-cleanup case of C15 occurs: no close event follows the error
\* event of a connection that was in a room (expected to be violated).
C15_CloseNeverFollowsError ==
    [][\A c \in Conns :
        ~( /\ server = "rooms"
           /\ event.kind = "error" /\ event.conn = c /\ event.was # Absent
           /\ event'.kind = "close" /\ event'.conn = c )
    ]_vars

\* C16: a member stays in its room, with its mapping, through every step
\* that is not its own close/error event; and the close/error event of a
\* member leaves every other member's mapping and membership and every
\* other room as they were.
C16_MembershipPersists ==
    [][\A c \in DOMAIN clientToRoom :
        IF Disconnects(c)
        THEN \A r \in DOMAIN rooms \ {clientToRoom[c]} :
                r \in DOMAIN rooms' /\ rooms'[r] = rooms[r]
        ELSE /\ c \in DOMAIN clientToRoom'
             /\ clientToRoom'[c] = clientToRoom[c]
             /\ clientToRoom[c] \in DOMAIN rooms'
             /\ \E i \in 1..Len(rooms'[clientToRoom[c]]) :
                   rooms'[clientToRoom[c]][i] = c
    ]_vars

\* C16 witness: one of two members disconnected; the room is still there
\* with the other, open, member.
C16_Witness ==
    /\ event.kind = "close"
    /\ event.was \in DOMAIN rooms
    /\ \E m \in Range(rooms[event.was]) :
         readyState[m] = "OPEN" /\ clientToRoom[m] = event.was

\* The step handles joinRoom with a roomId from connection c (room server).
JoinsBy(c) ==
    /\ server = "rooms"
    /\ event'.kind = "message"
    /\ event'.conn = c
    /\ IsObject(event'.data)
    /\ event'.data.type = "joinRoom"
    /\ Truthy(event'.data.roomId)

\* The step handles a message of c that goes to broadcastToRoom.
BroadcastsBy(c) ==
    /\ server = "rooms"
    /\ event'.kind = "message"
    /\ event'.conn = c
    /\ event'.data.syntax \in {"object", "scalar"}
    /\ ~(event'.data.type = "joinRoom" /\ Truthy(event'.data.roomId))

\* C17: joinRoom with roomId r from an unassigned connection c maps c to r
\* and adds c to members(r); r is created if absent and keeps its members
\* otherwise; other rooms and other mappings are unchanged.
C17_SuccessfulJoin ==
    [][\A c \in Conns :
        (JoinsBy(c) /\ c \notin DOMAIN clientToRoom)
        => LET r == event'.data.roomId
           IN  /\ DOMAIN clientToRoom' = DOMAIN clientToRoom \cup {c}
               /\ clientToRoom'[c] = r
               /\ \A m \in DOMAIN clientToRoom : clientToRoom'[m] = clientToRoom[m]
               /\ DOMAIN rooms' = DOMAIN rooms \cup {r}
               /\ rooms'[r] = IF r \in DOMAIN rooms THEN Append(rooms[r], c) ELSE <<c>>
               /\ \A q \in DOMAIN rooms \ {r} : rooms'[q] = rooms[q]
    ]_vars

\* C17 witness: a join has just created a room while another room exists.
C17_Witness ==
    /\ server = "rooms"
    /\ event.kind = "message"
    /\ event.data.type = "joinRoom"
    /\ event.was = Absent
    /\ event.data.roomId \in DOMAIN rooms
    /\ rooms[event.data.roomId] = <<event.conn>>
    /\ \E q \in DOMAIN rooms : q # event.data.roomId

\* C18: a member of the sender's room whose connection is not open (its
\* close/error event not handled yet) gets nothing from a broadcast; the
\* open members still get the message and the sender gets no reply.
C18_StaleMembersSkipped ==
    [][\A c \in Conns :
        (BroadcastsBy(c) /\ c \in DOMAIN clientToRoom)
        => LET others == Members(clientToRoom[c]) \ {c}
               stale == {m \in others : readyState[m] # "OPEN"}
           IN  stale # {}
                 => /\ Recipients(sent') \cap stale = {}
                    /\ c \notin Recipients(sent')
                    /\ others \ stale \subseteq Recipients(sent')
    ]_vars

\* C18 witness: a broadcast reached one member while another member of the
\* same room is stale (CLOSING, still in the room).
C18_Witness ==
    /\ server = "rooms"
    /\ event.kind = "message"
    /\ event.was \in DOMAIN rooms
    /\ Len(sent) = 1
    /\ \E m \in Range(rooms[event.was]) : readyState[m] = "CLOSING"

\* No connection has an event outstanding: each is unused or closed.
AllDone == \A c \in Conns : readyState[c] \in {"NEW", "CLOSED"}

\* C19: a closed connection has no entry anywhere; when every connection is
\* closed the directory and the reverse mapping are empty; and the close or
\* error event of the last connection that has a mapping empties both.
C19_NoStateLeak ==
    /\ [](\A c \in Conns :
            readyState[c] \in {"NEW", "CLOSED"}
               => /\ c \notin DOMAIN clientToRoom
                  /\ \A r \in DOMAIN rooms : c \notin Range(rooms[r]))
    /\ [](AllDone => (rooms = EmptyMap /\ clientToRoom = EmptyMap))
    /\ [][\A c \in Conns :
            (Disconnects(c) /\ server = "rooms" /\ DOMAIN clientToRoom \subseteq {c})
               => (rooms' = EmptyMap /\ clientToRoom' = EmptyMap)
       ]_vars

\* C19 witness: two connections that were in rooms are closed, none is left,
\* and the directory is empty.
C19_Witness ==
    /\ server = "rooms"
    /\ AllDone
    /\ event.kind = "close"
    /\ event.was # Absent
    /\ Cardinality({c \in Conns : readyState[c] = "CLOSED"}) >= 2
    /\ rooms = EmptyMap
    /\ clientToRoom = EmptyMap

\* C20: handling joinRoom with a roomId (first or duplicate join) or a
\* close/error event sends nothing to any connection.
C20_JoinsAndLeavesSilent ==
    [][\A c \in Conns : (JoinsBy(c) \/ Disconnects(c)) => sent' = <<>>]_vars

\* C20 witness: a connection joined a room that already had an open member
\* and nothing was sent.
C20_Witness ==
    /\ server = "rooms"
    /\ event.kind = "message"
    /\ event.data.type = "joinRoom"
    /\ event.was = Absent
    /\ event.data.roomId \in DOMAIN rooms
    /\ Len(rooms[event.data.roomId]) >= 2
    /\ readyState[rooms[event.data.roomId][1]] = "OPEN"
    /\ sent = <<>>

====
